---- MODULE Spec2Model ----
(***************************************************************************)
(* Connection management of a QUIC endpoint: the receive/dispatch loop,   *)
(* the connection-ID keyed peer registry, server admission (version       *)
(* negotiation, stateless retry, connection creation), client Connect,    *)
(* Close, and the retry-token address validator.                          *)
(*                                                                         *)
(* Server and Client embed the same localConn (socket, peers, peersMu,    *)
(* closing); the model has one endpoint whose role is fixed at            *)
(* construction.                                                           *)
(***************************************************************************)
EXTENDS Integers, Sequences, FiniteSets, TLC

\* ------------------------------------------------------------------ bounds
\* Number of ReadFrom calls that return while the socket is open.
MaxReads == 2
\* The same, in the retry exchange (SpecRetry).
MaxRetryReads == 3
\* Number of Client.Connect calls.
MaxConnects == 2
\* Capacity of a connection's inbound queue (recvCh, a buffered channel).
QueueCap == 1

\* ------------------------------------------------------- program constants
MaxCIDLength == 20
MinInitialPacketSize == 1200
\* const validity = 10 in addressValidator.Validate.
validity == 10
\* Width of one limb of a multi-limb integer: times are int64 in the code and
\* are kept here as <<hi, lo>> with value hi * 2^16 + lo, 0 <= lo < 2^16, so
\* that the uint32 truncation of a time is exact.
Limb == 256 * 256
\* cipher.AEAD.Overhead() of AES-GCM: the 16-byte authentication tag.
Overhead == 16
\* Number of leading token bytes that hold the issue time.
TimestampLen == 4

\* transport.ProtocolVersion = 0xff000000 + 29, as two 16-bit halves.
ProtocolVersion == <<65280, 29>>
OtherVersion == <<0, 1>>

\* ------------------------------------------------------------- time (int64)
TAdd(t, d) == LET s == t[2] + d IN <<t[1] + (s \div Limb), s % Limb>>

TSub(t, d) == LET s == t[2] - d IN <<t[1] + (s \div Limb), s % Limb>>

TLess(a, b) == a[1] < b[1] \/ (a[1] = b[1] /\ a[2] < b[2])

\* uint32(now): the low 32 bits of an int64.
Uint32(t) == <<t[1] % Limb, t[2]>>

\* binary.BigEndian.PutUint32 and Uint32 on the four timestamp bytes.
PutUint32(u) == <<u[1] \div 256, u[1] % 256, u[2] \div 256, u[2] % 256>>

GetUint32(bs) == <<bs[1] * 256 + bs[2], bs[3] * 256 + bs[4]>>

\* ------------------------------------------------------------ net.Addr
\* An address and its textual form (net.UDPAddr.String is "ip:port"; the
\* network name is not part of it).
MkAddr(net, ip, port) == [network |-> net, ip |-> ip, port |-> port]

AddrString(a) == <<a.ip, a.port>>

AddrA == MkAddr("udp", 1, 4433)
AddrB == MkAddr("udp", 2, 4433)
AddrC == MkAddr("udp4", 1, 4433)

\* ------------------------------------------------------------ AEAD, tokens
\* The validator's secret key and the fixed tail nonce[4:] of its nonce.
ValidatorKey == "server-key"
NonceTail == <<5, 6, 7, 8, 9, 10, 11, 12>>

\* AES-GCM as an ideal AEAD: a sealed box opens only under the same key,
\* nonce and additional data.
Seal(key, nonce, plaintext, aad) ==
    [key |-> key, nonce |-> nonce, pt |-> plaintext, aad |-> aad]

NoBox == [key |-> "none", nonce |-> <<>>, pt |-> <<>>, aad |-> <<>>]

Open(key, nonce, box, aad) ==
    IF box # NoBox /\ box.key = key /\ box.nonce = nonce /\ box.aad = aad
    THEN [ok |-> TRUE, pt |-> box.pt]
    ELSE [ok |-> FALSE, pt |-> <<>>]

\* A token: the timestamp bytes followed by the sealed original DCID.
NoToken == [ts |-> <<>>, box |-> NoBox]

TokenLen(tok) ==
    Len(tok.ts) + (IF tok.box = NoBox THEN 0 ELSE Len(tok.box.pt) + Overhead)

Generate(addr, odcid, tnow) ==
    LET ts == PutUint32(Uint32(tnow))
        nonce == ts \o NonceTail
    IN  [ts |-> ts, box |-> Seal(ValidatorKey, nonce, odcid, AddrString(addr))]

InWindow(issued, tnow) ==
    ~(TLess(issued, TSub(tnow, validity)) \/ TLess(tnow, issued))

\* Validate without the address as additional data.
ValidateAnyAddress(addr, token, tnow) ==
    IF TokenLen(token) < TimestampLen
    THEN <<>>
    ELSE IF ~InWindow(GetUint32(token.ts), tnow)
         THEN <<>>
         ELSE LET nonce == token.ts \o NonceTail
                  r == Open(ValidatorKey, nonce, token.box, token.box.aad)
              IN  IF r.ok THEN r.pt ELSE <<>>

Validate(addr, token, tnow) ==
    IF TokenLen(token) < TimestampLen
    THEN <<>>
    ELSE IF ~InWindow(GetUint32(token.ts), tnow)
         THEN <<>>
         ELSE LET nonce == token.ts \o NonceTail
                  r == Open(ValidatorKey, nonce, token.box, AddrString(addr))
              IN  IF r.ok THEN r.pt ELSE <<>>

\* ------------------------------------------------------------ datagrams
Cid(n, v) == [i \in 1..n |-> v]

\* What ReadFrom returns: the sender, the bytes read (n) and what
\* Header.Decode makes of them.
Dgram(addr, ok, type, ver, dcid, scid, token, n) ==
    [addr |-> addr, ok |-> ok, Type |-> type, Version |-> ver,
     DCID |-> dcid, SCID |-> scid, Token |-> token, n |-> n]

NoData ==
    Dgram(AddrA, FALSE, 0, ProtocolVersion, <<>>, <<>>, NoToken, 0)

\* The values s.rand can fill a connection ID with.
RandCIDs == {Cid(MaxCIDLength, 1), Cid(MaxCIDLength, 2)}

ClientSCID == Cid(MaxCIDLength, 9)

\* Initial, full-length DCID, no token
InitialFull ==
    Dgram(AddrA, TRUE, 0, ProtocolVersion, Cid(MaxCIDLength, 1), ClientSCID,
          NoToken, MinInitialPacketSize)

\* an Initial one byte short of the minimum size, of an unsupported version
InitialUndersized ==
    Dgram(AddrA, TRUE, 0, OtherVersion, Cid(MaxCIDLength, 1), ClientSCID,
          NoToken, MinInitialPacketSize - 1)

\* not an Initial packet
NonInitial ==
    Dgram(AddrA, TRUE, 2, ProtocolVersion, Cid(MaxCIDLength, 1), ClientSCID,
          NoToken, MinInitialPacketSize)

\* unsupported version
InitialOtherVersion ==
    Dgram(AddrB, TRUE, 0, OtherVersion, Cid(MaxCIDLength, 2), ClientSCID,
          NoToken, MinInitialPacketSize)

\* Initial with a zero-length DCID
InitialEmptyDCID ==
    Dgram(AddrA, TRUE, 0, ProtocolVersion, <<>>, ClientSCID, NoToken,
          MinInitialPacketSize)

\* bytes Header.Decode rejects
Garbage ==
    Dgram(AddrB, FALSE, 0, ProtocolVersion, <<>>, <<>>, NoToken, 40)

\* What the network delivers to a server, to a client, and to the server of
\* the retry exchange before any Retry is written.
ServerDatagrams ==
    {InitialFull, InitialUndersized, NonInitial, InitialOtherVersion,
     InitialEmptyDCID, Garbage}

ClientDatagrams == {NonInitial, Garbage}

RetryDatagrams == {InitialFull}

\* The errors ReadFrom can return.
ReadErrs == {"nil", "timeout", "fatal"}

\* ------------------------------------------------------------------ state
\* The sections of code that run under peersMu (shared or exclusive) read
\* and write only closing and peers; each is one atomic action.
VARIABLES
    role,       \* "server" or "client"
    addrValid,  \* Server.addrValid # nil
    socket,     \* localConn.socket: "nil", "open", "closed"
    closing,    \* localConn.closing
    peers,      \* localConn.peers: local CID -> connection handle
    now,        \* the clock timeFn reads, in seconds
    net,        \* the network: [wire: datagrams to deliver, reads: how many,
                \*  dcids: DCIDs a client may choose for a resent Initial]
    pkt,        \* pkt[b]: the datagram read into packet buffer b
    released,   \* released[b]: freePacket calls on buffer b
    replies,    \* replies[b]: datagrams written in reply to buffer b
    loops,      \* the Serve loops
    adm,        \* the handleNewConn goroutines, by triggering buffer
    conns,      \* the remoteConn handles
    calls,      \* the Client.Connect calls
    closer,     \* the Close call
    tk,         \* a Generate/Validate exercise of the address validator
    mu          \* peersMu and the position in the code of each routine using it

vars ==
    <<role, addrValid, socket, closing, peers, now, net, pkt, released,
      replies, loops, adm, conns, calls, closer, tk, mu>>

\* One Serve loop reads the socket; the handleNewConn goroutines it starts,
\* the drivers, Connect and Close run concurrently with it.
Loops == {1}
Calls == 1..MaxConnects
Buffers == DOMAIN pkt

T0 == <<27000, 65530>>

\* peersMu unlocked and no routine under observation.
MuIdle == [writer |-> "none", readers |-> {}, rt |-> <<>>]

TkIdle ==
    [pc |-> "idle", addr |-> AddrA, odcid |-> <<>>, issuedAt |-> T0,
     token |-> NoToken, vaddr |-> AddrA, now |-> T0, out |-> <<>>]

\* What a loop did with the last packet it read: the buffer and the exit
\* path of recv (the line it logs).
Log(b, msg) == [b |-> b, msg |-> msg]

NoLog == Log(0, "none")

\* NewServer / NewClient: localConn.init.
InitEndpoint ==
    /\ socket = "nil"
    /\ closing = FALSE
    /\ peers = <<>>
    /\ now = T0
    /\ pkt = <<>>
    /\ released = <<>>
    /\ replies = <<>>
    /\ loops = [l \in Loops |->
                    [pc |-> "start", b |-> 0, err |-> "nil", c |-> 0,
                     log |-> NoLog]]
    /\ adm = <<>>
    /\ conns = <<>>
    /\ calls = [k \in Calls |-> [pc |-> "idle", res |-> "none"]]
    /\ closer = "idle"

Init ==
    /\ role \in {"server", "client"}
    /\ addrValid \in (IF role = "server" THEN BOOLEAN ELSE {FALSE})
    /\ net = [wire |-> IF role = "server" THEN ServerDatagrams
                       ELSE ClientDatagrams,
              reads |-> MaxReads, dcids |-> {}]
    /\ InitEndpoint
    /\ tk = TkIdle
    /\ mu = MuIdle

\* ---------------------------------------------------------------- helpers
\* freePacket(p) on buffer b.
freePacket(rel, b) == [rel EXCEPT ![b] = @ + 1]

\* The contents of a buffer back in the pool are dead.
Recycle(pk, rel) ==
    [b \in DOMAIN pk |-> IF rel[b] > 0 THEN NoData ELSE pk[b]]

\* What Serve does with the read error once recv has returned.
AfterRecv(e) ==
    IF e = "nil" THEN "read"
    ELSE IF role = "server" /\ e = "timeout" THEN "read"
    ELSE "returned"

\* The retried Initial packets a client can build from the Retry datagrams
\* written so far: DCID the Retry's new CID, the Retry's token, sent from the
\* address the Retry went to or from another one.  A client that does not
\* follow the Retry puts a DCID of its own choice (net.dcids) next to the
\* token.
SentReplies ==
    UNION { {replies[b][i] : i \in DOMAIN replies[b]} : b \in DOMAIN replies }

Resends ==
    UNION { { Dgram(a, TRUE, 0, ProtocolVersion, d, r.dcid, r.token,
                    MinInitialPacketSize) :
                a \in {AddrA, AddrB}, d \in {r.scid} \cup net.dcids } :
            r \in {x \in SentReplies : x.kind = "retry"} }

Inputs == net.wire \cup Resends

\* The socket writes succeed only on an open socket, and may fail on it.
WriteOutcomes == IF socket = "open" THEN {TRUE, FALSE} ELSE {FALSE}

\* s.peers[string(c.scid[:])] = c
Insert(reg, scid, c) == (scid :> c) @@ reg

\* A rollback that leaves the registry as it is.
DeleteNothing(reg, scid) == reg

\* delete(s.peers, string(c.scid[:]))
Delete(reg, scid) == [k \in DOMAIN reg \ {scid} |-> reg[k]]

\* ------------------------------------------------------- socket and Serve
\* ListenAndServe's net.ListenPacket and the assignment of s.socket.
Listen ==
    /\ socket = "nil"
    /\ socket' = "open"
    /\ UNCHANGED <<mu, role, addrValid, closing, peers, now, net, pkt, released,
                   replies, loops, adm, conns, calls, closer, tk>>

\* Serve is entered: without a socket it returns an error at once.
ServeStart(l) ==
    /\ loops[l].pc = "start"
    /\ loops' = [loops EXCEPT ![l].pc =
                    IF socket = "nil" THEN "returned" ELSE "read",
                 ![l].err = IF socket = "nil" THEN "no listening connection"
                            ELSE "nil"]
    /\ UNCHANGED <<mu, role, addrValid, socket, closing, peers, now, net, pkt,
                   released, replies, adm, conns, calls, closer, tk>>

\* The freePacket calls of recv when it finds the endpoint closing: the
\* server frees the packet, the client returns without freeing it.
RecvClosingFree(r) == IF r = "server" THEN 1 ELSE 0

\* The connection recv finds for a DCID, 0 when there is none.
Lookup(reg, dcid) == IF dcid \in DOMAIN reg THEN reg[dcid] ELSE 0

\* newPacket, ReadFrom on the open socket, and recv up to RUnlock:
\* Header.Decode, the closing check and the registry lookup. A read of no
\* bytes and a decode failure free the buffer.
ServeRead(l) ==
    /\ loops[l].pc = "read"
    /\ socket = "open"
    /\ Len(pkt) < net.reads
    /\ \E d \in Inputs \cup {NoData}, e \in ReadErrs :
        LET b == Len(pkt) + 1 IN
        /\ d.n = 0 \/ e # "timeout"
        /\ replies' = Append(replies, <<>>)
        /\ IF d.n = 0 \/ ~d.ok
           THEN /\ released' = Append(released, 1)
                /\ loops' = [loops EXCEPT ![l] =
                       [pc |-> AfterRecv(e), b |-> 0, err |-> e, c |-> 0,
                        log |-> Log(b, IF d.n = 0 THEN "no data"
                                       ELSE "could not decode packet")]]
           ELSE IF closing
           THEN /\ released' = Append(released, RecvClosingFree(role))
                /\ loops' = [loops EXCEPT ![l] =
                       [pc |-> AfterRecv(e), b |-> 0, err |-> e, c |-> 0,
                        log |-> Log(b, "closing")]]
           ELSE /\ released' = Append(released, 0)
                /\ loops' = [loops EXCEPT ![l] =
                       [pc |-> "route", b |-> b, err |-> e,
                        c |-> Lookup(peers, d.DCID), log |-> NoLog]]
        /\ pkt' = Recycle(Append(pkt, d), released')
    /\ UNCHANGED <<mu, role, addrValid, socket, closing, peers, now, net, adm,
                   conns, calls, closer, tk>>

\* ReadFrom on a closed socket: no bytes and an error that is no timeout.
ServeReadClosed(l) ==
    /\ loops[l].pc = "read"
    /\ socket = "closed"
    /\ loops' = [loops EXCEPT ![l] =
                    [pc |-> "returned", b |-> 0, err |-> "fatal", c |-> 0,
                     log |-> NoLog]]
    /\ UNCHANGED <<mu, role, addrValid, socket, closing, peers, now, net, pkt,
                   released, replies, adm, conns, calls, closer, tk>>

\* A datagram the server writes in reply to packet header h.
Reply(kind, h, scid, token) ==
    [kind |-> kind, to |-> h.addr, dcid |-> h.SCID, scid |-> scid,
     token |-> token]

\* negotiate writing its datagram twice.
negotiateTwice(sent, h, written) ==
    Append(Append(sent, Reply("negotiate", h, h.DCID, NoToken)),
           Reply("negotiate", h, h.DCID, NoToken))

\* negotiate: the replies after a version-negotiation attempt for packet h
\* whose write succeeded (written) or failed.
negotiate(sent, h, written) ==
    IF written
    THEN Append(sent, Reply("negotiate", h, h.DCID, NoToken))
    ELSE sent

\* recv's test without the size check.
ValidInitialAnySize(h) == ~(h.Type # 0)

\* recv's test of a packet for an unknown DCID: Initial type and at least
\* the minimum Initial size.
ValidInitial(h) == ~(h.Type # 0 \/ h.n < MinInitialPacketSize)

\* recv's test of the version.
VersionSupported(h) == h.Version = ProtocolVersion

\* A fresh handleNewConn goroutine.
NewAdm == [pc |-> "start", res |-> "none"]

\* recv after RUnlock: hand the packet to the connection found (a blocking
\* send on its recvCh), or, for an unknown DCID, drop it (client), or drop,
\* negotiate the version or start handleNewConn (server).
RecvRoute(l) ==
    LET b == loops[l].b
        c == loops[l].c
        h == pkt[b]
    IN
    /\ loops[l].pc = "route"
    /\ LET msg == IF c # 0 THEN "routed"
                  ELSE IF role = "client" THEN "unknown destination"
                  ELSE IF ~ValidInitial(h) THEN "invalid initial"
                  ELSE IF ~VersionSupported(h) THEN "negotiate"
                  ELSE "new connection"
       IN
        /\ IF msg = "routed"
           THEN /\ Len(conns[c].recvCh) < QueueCap
                /\ conns' = [conns EXCEPT ![c].recvCh = Append(@, b)]
                /\ UNCHANGED <<released, replies, adm>>
           ELSE IF msg = "negotiate"
           THEN /\ \E written \in WriteOutcomes :
                     replies' = [replies EXCEPT ![b] = negotiate(@, h, written)]
                /\ released' = freePacket(released, b)
                /\ UNCHANGED <<conns, adm>>
           ELSE IF msg = "new connection"
           THEN /\ adm' = adm @@ (b :> NewAdm)
                /\ UNCHANGED <<conns, released, replies>>
           ELSE /\ released' = freePacket(released, b)
                /\ UNCHANGED <<conns, replies, adm>>
        /\ loops' = [loops EXCEPT ![l].pc = AfterRecv(loops[l].err),
                                  ![l].b = 0, ![l].c = 0,
                                  ![l].log = Log(b, msg)]
    /\ pkt' = Recycle(pkt, released')
    /\ UNCHANGED <<mu, role, addrValid, socket, closing, peers, now, net, calls,
                   closer, tk>>

\* ------------------------------------------------------ server admission
\* retry with a token made for the packet's SCID.
retryTokenForSCID(sent, h, newCID, written, tnow) ==
    IF written
    THEN Append(sent, Reply("retry", h, newCID, Generate(h.addr, h.SCID, tnow)))
    ELSE sent

\* retry: the replies after a Retry attempt for packet h. The Retry carries
\* newCID and a token for the sender address and the packet's DCID; nothing
\* is written when s.rand, transport.Retry or the socket write fails.
retry(sent, h, newCID, written, tnow) ==
    IF written
    THEN Append(sent, Reply("retry", h, newCID, Generate(h.addr, h.DCID, tnow)))
    ELSE sent

\* verifyToken
verifyToken(addr, token, tnow) == Validate(addr, token, tnow)

\* newConn drawing every local CID from the random source.
newConnCIDsAlwaysRandom(scid) == RandCIDs

\* newConn's choice of the local CID c.scid from its scid argument.
newConnCIDs(scid) ==
    IF Len(scid) = MaxCIDLength THEN {scid} ELSE RandCIDs

\* newRemoteConn and the fields newConn sets.
newRemoteConn(addr, scid, odcid) ==
    [scid |-> scid, addr |-> addr, odcid |-> odcid, recvCh |-> <<>>,
     st |-> "new", drv |-> "none", sent |-> 0]

\* handleNewConn answering an invalid token with another Retry.
handleNewConnTokenRetryAgain(valid, h, odcid) ==
    IF valid /\ Len(odcid) = 0 THEN "retry" ELSE "create"

\* handleNewConn before newConn: "retry" for a packet without token,
\* "invalid" for one whose token does not validate, else "create".
handleNewConnToken(valid, h, odcid) ==
    IF valid /\ TokenLen(h.Token) = 0 THEN "retry"
    ELSE IF valid /\ Len(odcid) = 0 THEN "invalid"
    ELSE "create"

\* handleNewConn without the closing check.
handleNewConnInsertNoClosing(cl, reg, scid) ==
    IF scid \in DOMAIN reg THEN "conflict" ELSE "insert"

\* handleNewConn under the exclusive lock: what becomes of the new
\* connection with local CID scid.
handleNewConnInsert(cl, reg, scid) ==
    IF cl THEN "closing"
    ELSE IF scid \in DOMAIN reg THEN "conflict"
    ELSE "insert"

\* handleNewConn up to Unlock: Retry for a packet without token, token
\* validation, newConn, and under the exclusive lock the closing check, the
\* conflict check and the insertion.
AdmAdmit(b) ==
    LET h == pkt[b]
        odcid == IF addrValid /\ TokenLen(h.Token) # 0
                 THEN verifyToken(h.addr, h.Token, now) ELSE <<>>
        step == handleNewConnToken(addrValid, h, odcid)
    IN
    /\ b \in DOMAIN adm
    /\ adm[b].pc = "start"
    /\ IF step = "retry"
       THEN /\ \E newCID \in RandCIDs, written \in WriteOutcomes :
                 replies' = [replies EXCEPT
                                ![b] = retry(@, h, newCID, written, now)]
            /\ released' = freePacket(released, b)
            /\ adm' = [adm EXCEPT ![b] = [pc |-> "done", res |-> "retry"]]
            /\ UNCHANGED <<conns, peers>>
       ELSE IF step = "invalid"
       THEN /\ released' = freePacket(released, b)
            /\ adm' = [adm EXCEPT ![b] = [pc |-> "done", res |-> "invalid"]]
            /\ UNCHANGED <<conns, peers, replies>>
       ELSE \E scid \in newConnCIDs(h.DCID), created \in BOOLEAN :
               LET out == handleNewConnInsert(closing, peers, scid)
                   c == newRemoteConn(h.addr, scid, odcid)
               IN
               /\ UNCHANGED replies
               /\ IF ~created
                  THEN /\ released' = freePacket(released, b)
                       /\ adm' = [adm EXCEPT
                                    ![b] = [pc |-> "done", res |-> "failed"]]
                       /\ UNCHANGED <<conns, peers>>
                  ELSE IF out = "insert"
                  THEN /\ peers' = Insert(peers, scid, b)
                       /\ conns' = conns @@ (b :> [c EXCEPT !.st = "inserted"])
                       /\ adm' = [adm EXCEPT
                                    ![b] = [pc |-> "enqueue", res |-> out]]
                       /\ UNCHANGED released
                  ELSE /\ released' = freePacket(released, b)
                       /\ conns' = conns @@ (b :> [c EXCEPT !.st = out])
                       /\ adm' = [adm EXCEPT ![b] = [pc |-> "done", res |-> out]]
                       /\ UNCHANGED peers
    /\ pkt' = Recycle(pkt, released')
    /\ UNCHANGED <<mu, role, addrValid, socket, closing, now, net, loops, calls,
                   closer, tk>>

\* handleNewConn: c.recvCh <- p, then s.handleConn(c) on this goroutine.
AdmEnqueue(b) ==
    /\ b \in DOMAIN adm
    /\ adm[b].pc = "enqueue"
    /\ Len(conns[b].recvCh) < QueueCap
    /\ conns' = [conns EXCEPT ![b].recvCh = Append(@, b),
                              ![b].drv = "running"]
    /\ adm' = [adm EXCEPT ![b].pc = "done"]
    /\ UNCHANGED <<mu, role, addrValid, socket, closing, peers, now, net, pkt,
                   released, replies, loops, calls, closer, tk>>

\* ------------------------------------------------- per-connection driver
\* handleConn: take a packet from recvCh, feed the engine, free the packet.
DriverRecv(c) ==
    /\ conns[c].drv = "running"
    /\ conns[c].recvCh # <<>>
    /\ released' = freePacket(released, Head(conns[c].recvCh))
    /\ conns' = [conns EXCEPT ![c].recvCh = Tail(@)]
    /\ pkt' = Recycle(pkt, released')
    /\ UNCHANGED <<mu, role, addrValid, socket, closing, peers, now, net,
                   replies, loops, adm, calls, closer, tk>>

\* freePacket on every packet still queued.
Drain(rel, q) ==
    [b \in DOMAIN rel |->
        rel[b] + Cardinality({i \in DOMAIN q : q[i] = b})]

\* handleConn ends (engine closed or idle timeout): the connection leaves
\* the registry under the exclusive lock and its queued packets are freed.
DriverClose(c) ==
    /\ conns[c].drv = "running"
    /\ peers' = Delete(peers, conns[c].scid)
    /\ released' = Drain(released, conns[c].recvCh)
    /\ conns' = [conns EXCEPT ![c].recvCh = <<>>, ![c].drv = "closed",
                              ![c].st = "removed"]
    /\ pkt' = Recycle(pkt, released')
    /\ UNCHANGED <<mu, role, addrValid, socket, closing, now, net, replies,
                   loops, adm, calls, closer, tk>>

\* ------------------------------------------------------- Client.Connect
ServerAddr == AddrB

\* Connect without the conflict check.
ConnectInsertOverwrite(cl, reg, scid) ==
    IF cl THEN "closing" ELSE "insert"

\* Connect under the exclusive lock.
ConnectInsert(cl, reg, scid) ==
    IF cl THEN "closing"
    ELSE IF scid \in DOMAIN reg THEN "conflict"
    ELSE "insert"

\* Connect up to Unlock: newConn (resolve the address, a random local CID,
\* transport.Connect), and under the exclusive lock the closing check, the
\* conflict check and the insertion.
Connect(k) ==
    /\ role = "client"
    /\ calls[k].pc = "idle"
    /\ \E scid \in RandCIDs, created \in BOOLEAN :
          LET out == ConnectInsert(closing, peers, scid)
              c == newRemoteConn(ServerAddr, scid, <<>>)
          IN
          IF ~created
          THEN /\ calls' = [calls EXCEPT ![k] = [pc |-> "done", res |-> "error"]]
               /\ UNCHANGED <<conns, peers>>
          ELSE IF out = "insert"
          THEN /\ peers' = Insert(peers, scid, k)
               /\ conns' = conns @@ (k :> [c EXCEPT !.st = "inserted"])
               /\ calls' = [calls EXCEPT ![k].pc = "send"]
          ELSE /\ conns' = conns @@ (k :> [c EXCEPT !.st = out])
               /\ calls' = [calls EXCEPT ![k] = [pc |-> "done", res |-> out]]
               /\ UNCHANGED peers
    /\ UNCHANGED <<mu, role, addrValid, socket, closing, now, net, pkt, released,
                   replies, loops, adm, closer, tk>>

\* Connect: sendConn writes the initial datagram; on success the driver is
\* started (go s.handleConn(c)) and Connect returns nil.
ConnectSend(k) ==
    /\ calls[k].pc = "send"
    /\ \E written \in WriteOutcomes :
          IF written
          THEN /\ conns' = [conns EXCEPT ![k].sent = @ + 1,
                                         ![k].drv = "running"]
               /\ calls' = [calls EXCEPT ![k] = [pc |-> "done", res |-> "nil"]]
          ELSE /\ calls' = [calls EXCEPT ![k].pc = "rollback"]
               /\ UNCHANGED conns
    /\ UNCHANGED <<mu, role, addrValid, socket, closing, peers, now, net, pkt,
                   released, replies, loops, adm, closer, tk>>

\* Connect after a failed send: under the exclusive lock the entry is
\* deleted; the error is returned.
ConnectRollback(k) ==
    /\ calls[k].pc = "rollback"
    /\ peers' = Delete(peers, conns[k].scid)
    /\ conns' = [conns EXCEPT ![k].st = "removed"]
    /\ calls' = [calls EXCEPT ![k] = [pc |-> "done", res |-> "send error"]]
    /\ UNCHANGED <<mu, role, addrValid, socket, closing, now, net, pkt, released,
                   replies, loops, adm, closer, tk>>

\* ------------------------------------------------------------------ Close
\* localConn.close: the closing flag is set under the exclusive lock.
CloseFlag ==
    /\ closer = "idle"
    /\ closing' = TRUE
    /\ closer' = "flagged"
    /\ UNCHANGED <<mu, role, addrValid, socket, peers, now, net, pkt, released,
                   replies, loops, adm, conns, calls, tk>>

\* Close: the socket, when one is set, is closed.
CloseSocket ==
    /\ closer = "flagged"
    /\ socket' = IF socket = "nil" THEN "nil" ELSE "closed"
    /\ closer' = "done"
    /\ UNCHANGED <<mu, role, addrValid, closing, peers, now, net, pkt, released,
                   replies, loops, adm, conns, calls, tk>>

\* ------------------------------------------------------------------ clock
ClockTimes == {TAdd(T0, 1), TAdd(T0, validity + 1)}

\* Time passes; only the address validator reads the clock.
Tick ==
    /\ addrValid
    /\ \E t \in ClockTimes : TLess(now, t) /\ now' = t
    /\ UNCHANGED <<mu, role, addrValid, socket, closing, peers, net, pkt, released,
                   replies, loops, adm, conns, calls, closer, tk>>

Next ==
    \/ Listen
    \/ \E l \in Loops : ServeStart(l)
    \/ \E l \in Loops : ServeRead(l)
    \/ \E l \in Loops : ServeReadClosed(l)
    \/ \E l \in Loops : RecvRoute(l)
    \/ \E b \in Buffers : AdmAdmit(b)
    \/ \E b \in Buffers : AdmEnqueue(b)
    \/ \E c \in DOMAIN conns : DriverRecv(c)
    \/ \E c \in DOMAIN conns : DriverClose(c)
    \/ \E k \in Calls : Connect(k)
    \/ \E k \in Calls : ConnectSend(k)
    \/ \E k \in Calls : ConnectRollback(k)
    \/ CloseFlag
    \/ CloseSocket
    \/ Tick

Spec == Init /\ [][Next]_vars

\* ------------------------------------------------- the retry exchange
\* A server with address validation whose network delivers a tokenless
\* Initial and whatever a client builds from the Retry it gets back.
InitRetry ==
    /\ role = "server"
    /\ addrValid = TRUE
    /\ net = [wire |-> RetryDatagrams, reads |-> MaxRetryReads,
              dcids |-> {}]
    /\ InitEndpoint
    /\ tk = TkIdle
    /\ mu = MuIdle

NextRetry ==
    \/ Listen
    \/ \E l \in Loops : ServeStart(l)
    \/ \E l \in Loops : ServeRead(l)
    \/ \E l \in Loops : ServeReadClosed(l)
    \/ \E l \in Loops : RecvRoute(l)
    \/ \E b \in Buffers : AdmAdmit(b)
    \/ \E b \in Buffers : AdmEnqueue(b)
    \/ \E c \in DOMAIN conns : DriverRecv(c)
    \/ \E c \in DOMAIN conns : DriverClose(c)
    \/ CloseFlag
    \/ CloseSocket
    \/ Tick

SpecRetry == InitRetry /\ [][NextRetry]_vars

\* ------------------------------------------------- the address validator
\* Generate at one time for one address and original DCID, then Validate of
\* that token at a time before, at or after it, for the same or another
\* address.
Addrs == {AddrA, AddrB, AddrC}

ODCIDs == {<<>>, Cid(8, 7), Cid(MaxCIDLength, 1)}

\* Issue times: T0, and 6 seconds before and 3 seconds after 2^32.
IssueTimes == {T0, <<Limb - 1, Limb - 6>>, <<Limb, 3>>}

Delays == {-1, 0, 1, validity, validity + 1}

InitToken ==
    /\ role = "server"
    /\ addrValid = TRUE
    /\ net = [wire |-> {}, reads |-> 0, dcids |-> {}]
    /\ InitEndpoint
    /\ mu = MuIdle
    /\ tk \in { [pc |-> "generate", addr |-> a, odcid |-> o, issuedAt |-> t,
                 token |-> NoToken, vaddr |-> a, now |-> t, out |-> <<>>] :
                a \in Addrs, o \in ODCIDs, t \in IssueTimes }

TkGenerate ==
    /\ tk.pc = "generate"
    /\ tk' = [tk EXCEPT !.pc = "validate",
                        !.token = Generate(tk.addr, tk.odcid, tk.issuedAt)]
    /\ UNCHANGED <<mu, role, addrValid, socket, closing, peers, now, net, pkt,
                   released, replies, loops, adm, conns, calls, closer>>

TkValidate ==
    /\ tk.pc = "validate"
    /\ \E a \in Addrs, d \in Delays :
          LET t == TAdd(tk.issuedAt, d) IN
          tk' = [tk EXCEPT !.pc = "done", !.vaddr = a, !.now = t,
                           !.out = Validate(a, tk.token, t)]
    /\ UNCHANGED <<mu, role, addrValid, socket, closing, peers, now, net, pkt,
                   released, replies, loops, adm, conns, calls, closer>>

NextToken == TkGenerate \/ TkValidate

SpecToken == InitToken /\ [][NextToken]_vars

\* ================================================================ claims

\* Every connection that was inserted and not yet removed is the value of
\* its local CID in the registry.
C1Registered ==
    \A c \in DOMAIN conns :
        conns[c].st = "inserted" =>
            /\ conns[c].scid \in DOMAIN peers
            /\ peers[conns[c].scid] = c

\* A step never remaps a key, and a connection created for a local CID that
\* is a key already is rejected: the server drops the datagram, Connect
\* returns the error.
C1Step ==
    /\ \A k \in DOMAIN peers \cap DOMAIN peers' : peers'[k] = peers[k]
    /\ \A c \in DOMAIN conns' \ DOMAIN conns :
          conns'[c].scid \in DOMAIN peers =>
              /\ conns'[c].st \in {"conflict", "closing"}
              /\ ~closing => conns'[c].st = "conflict"
              /\ peers' = peers
              /\ role = "server" =>
                    /\ adm'[c] = [pc |-> "done", res |-> conns'[c].st]
                    /\ released'[c] = 1
              /\ role = "client" =>
                    calls'[c] = [pc |-> "done", res |-> conns'[c].st]

\* ---- C1 (checked under Spec)
\* Under every interleaving of handleNewConn and Connect the registry never
\* holds two connections under one local CID: each live connection is the
\* value of its own key, an insertion attempt for a CID that is a key already
\* is rejected (server: datagram dropped; client: conflict error) and the
\* existing entry keeps its connection handle.
C1_NeverOverwritten == []C1Registered /\ [][C1Step]_vars

\* Two connections were created for one local CID; the first is registered,
\* the second was rejected as a conflict.
C1_Witness ==
    \E c1, c2 \in DOMAIN conns :
        /\ c1 # c2
        /\ conns[c1].scid = conns[c2].scid
        /\ conns[c1].st = "inserted"
        /\ conns[c2].st = "conflict"
        /\ peers[conns[c1].scid] = c1

\* A connection rejected because the endpoint is closing never sent a
\* datagram, never got a driver and never was handed a packet.
C2Aborted ==
    \A c \in DOMAIN conns :
        conns[c].st = "closing" =>
            conns[c].sent = 0 /\ conns[c].drv = "none" /\ conns[c].recvCh = <<>>

\* What a step does when the closing flag is set before it.
C2Step ==
    closing =>
        /\ DOMAIN peers' \subseteq DOMAIN peers
        /\ role = "server" =>
              \A b \in DOMAIN pkt' \ DOMAIN pkt :
                  /\ released'[b] = 1
                  /\ b \notin DOMAIN adm'
                  /\ \A l \in Loops : loops'[l].b # b
        /\ \A b \in DOMAIN adm :
              (adm[b].pc = "start" /\ adm'[b].pc # "start") =>
                  /\ adm'[b].pc = "done"
                  /\ adm'[b].res \in {"retry", "invalid", "failed", "closing"}
                  /\ released'[b] = 1
                  /\ peers' = peers
        /\ \A k \in Calls :
              (calls[k].pc = "idle" /\ calls'[k].pc # "idle") =>
                  /\ calls'[k].pc = "done"
                  /\ calls'[k].res \in {"closing", "error"}
                  /\ peers' = peers

\* ---- C2 (checked under Spec)
\* Once the closing flag is set the set of registry keys never grows: a
\* datagram the server reads is dropped by the dispatch loop, an admission
\* routine in flight aborts at the exclusive-lock check without inserting,
\* and Connect returns an error without inserting, sending or starting a
\* driver.
C2_NoGrowthOnceClosing == []C2Aborted /\ [][C2Step]_vars

\* An admission routine that was in flight when the flag was set aborted at
\* the lock check: its datagram is released and its connection unregistered.
C2_Witness ==
    /\ closing
    /\ \E b \in DOMAIN adm :
          /\ adm[b].res = "closing"
          /\ released[b] = 1
          /\ b \in DOMAIN conns
          /\ conns[b].st = "closing"
          /\ conns[b].scid \notin DOMAIN peers

\* The connections ever registered under local CID x, and those registered
\* now.
Registered(x) ==
    {c \in DOMAIN conns :
        conns[c].scid = x /\ conns[c].st \in {"inserted", "removed"}}

Live(x) ==
    {c \in DOMAIN conns : conns[c].scid = x /\ conns[c].st = "inserted"}

Driven(x) ==
    {c \in DOMAIN conns : conns[c].scid = x /\ conns[c].drv = "running"}

\* The Retry datagrams written so far.
Retries == {r \in SentReplies : r.kind = "retry"}

\* What an admission routine does with its packet: a tokenless Initial gets
\* at most one Retry and no connection; an Initial with a token gets no
\* Retry, and a connection only for a token valid for its sender, under the
\* packet's DCID (the Retry's new CID) when that is no registry key yet.
C3Step ==
    \A b \in DOMAIN adm :
        (adm[b].pc = "start" /\ adm'[b].pc # "start") =>
            IF TokenLen(pkt[b].Token) = 0
            THEN /\ adm'[b] = [pc |-> "done", res |-> "retry"]
                 /\ conns' = conns
                 /\ peers' = peers
                 /\ replies'[b] \in
                       {<<>>} \cup
                       {<<Reply("retry", pkt[b], x,
                                Generate(pkt[b].addr, pkt[b].DCID, now))>> :
                           x \in RandCIDs}
            ELSE /\ replies' = replies
                 /\ IF adm'[b].res = "insert"
                    THEN /\ Len(Validate(pkt[b].addr, pkt[b].Token, now)) > 0
                         /\ pkt[b].DCID \notin DOMAIN peers
                         /\ peers' = Insert(peers, pkt[b].DCID, b)
                         /\ conns'[b].scid = pkt[b].DCID
                         /\ conns'[b].odcid =
                               Validate(pkt[b].addr, pkt[b].Token, now)
                    ELSE peers' = peers

UnknownDCIDStep(l) ==
    /\ role = "server"
    /\ loops[l].pc = "route"
    /\ loops'[l].pc # "route"
    /\ loops[l].c = 0

\* ---- C4 (checked under Spec)
\* On the server a datagram that matches no registry entry and is shorter
\* than the minimum Initial size, or is not of Initial type, is dropped: no
\* registry insertion, no admission routine, no connection, no driver and no
\* Retry or version-negotiation reply, whatever its version; admission
\* routines and replies exist only for Initial packets of at least that size.
C4_InvalidInitialDropped ==
    [][ /\ \A l \in Loops :
            LET b == loops[l].b IN
            (/\ UnknownDCIDStep(l)
             /\ (pkt[b].Type # 0 \/ pkt[b].n < MinInitialPacketSize)) =>
                /\ released'[b] = 1
                /\ peers' = peers
                /\ conns' = conns
                /\ adm' = adm
                /\ replies' = replies
        /\ \A b \in DOMAIN pkt :
            (b \in DOMAIN adm' \ DOMAIN adm \/ replies'[b] # replies[b]) =>
                pkt[b].Type = 0 /\ pkt[b].n >= MinInitialPacketSize
      ]_vars

\* The server dropped a packet for failing the type or size test: the buffer
\* is released, nothing was written, no admission routine exists for it.
C4_Witness ==
    /\ role = "server"
    /\ \E l \in Loops :
          /\ loops[l].log.msg = "invalid initial"
          /\ released[loops[l].log.b] = 1
          /\ replies[loops[l].log.b] = <<>>
          /\ loops[l].log.b \notin DOMAIN adm
          /\ conns = <<>>
          /\ peers = <<>>

\* The recv step of loop l on an Initial of the minimum size and an
\* unsupported version that matched no registry entry.
NegotiateStep(l) ==
    /\ UnknownDCIDStep(l)
    /\ pkt[loops[l].b].Type = 0
    /\ pkt[loops[l].b].n >= MinInitialPacketSize
    /\ pkt[loops[l].b].Version # ProtocolVersion

\* What every version-negotiation step leaves alone: no connection, no
\* registry entry, no admission routine; the packet is released.
NegotiateOnly(l) ==
    /\ peers' = peers
    /\ conns' = conns
    /\ adm' = adm
    /\ released'[loops[l].b] = 1
    /\ \A b \in DOMAIN replies : b # loops[l].b => replies'[b] = replies[b]

\* ---- C5, as stated (checked under Spec)
\* A datagram with an unknown DCID that passes the type and size tests and
\* declares an unsupported version produces exactly one version-negotiation
\* reply addressed to the sender and creates no connection.
C5_ExactlyOneReply ==
    [][ \A l \in Loops :
            LET b == loops[l].b IN
            NegotiateStep(l) =>
                /\ replies'[b] = <<Reply("negotiate", pkt[b], pkt[b].DCID, NoToken)>>
                /\ NegotiateOnly(l)
      ]_vars

\* ---- C5, amended (checked under Spec)
\* Such a datagram produces at most one version-negotiation reply, addressed
\* to the sender and none once the socket is not open, and creates no
\* connection (registry unchanged, no admission routine, no driver, no
\* Retry).
C5_AtMostOneReply ==
    [][ \A l \in Loops :
            LET b == loops[l].b IN
            NegotiateStep(l) =>
                /\ replies'[b] \in
                      {<<>>, <<Reply("negotiate", pkt[b], pkt[b].DCID, NoToken)>>}
                /\ socket # "open" => replies'[b] = <<>>
                /\ NegotiateOnly(l)
      ]_vars

\* The server answered an Initial of an unsupported version with one
\* version-negotiation datagram to its sender and created nothing.
C5_Witness ==
    /\ role = "server"
    /\ \E l \in Loops :
          LET b == loops[l].log.b IN
          /\ loops[l].log.msg = "negotiate"
          /\ replies[b] =
                <<Reply("negotiate", InitialOtherVersion,
                        InitialOtherVersion.DCID, NoToken)>>
          /\ released[b] = 1
          /\ b \notin DOMAIN adm
          /\ conns = <<>>
          /\ peers = <<>>

\* ---- C6 (checked under SpecToken)
\* Token round trip: Validate of the token Generate returned, for the same
\* address and at the same time, returns the original DCID.
C6_TokenRoundTrip ==
    (tk.pc = "done" /\ tk.vaddr = tk.addr /\ tk.now = tk.issuedAt)
        => tk.out = tk.odcid

\* ---- C7 (checked under SpecToken)
\* Address binding: Validate of a generated token for an address whose
\* textual form differs from the one it was generated for returns the empty
\* result, at every time.
C7_AddressBinding ==
    (tk.pc = "done" /\ AddrString(tk.vaddr) # AddrString(tk.addr))
        => tk.out = <<>>

\* A token of a non-empty DCID, inside its window, that validates for its own
\* address, was presented from another address and rejected.
C7_Witness ==
    /\ tk.pc = "done"
    /\ AddrString(tk.vaddr) # AddrString(tk.addr)
    /\ Len(tk.odcid) > 0
    /\ Validate(tk.addr, tk.token, tk.now) = tk.odcid
    /\ tk.out = <<>>

\* The times at which a token issued at second t is inside its window.
WithinValidity(t, tnow) ==
    ~TLess(tnow, t) /\ ~TLess(TAdd(t, validity), tnow)

\* ---- C8 (checked under SpecToken)
\* Validity window: a token issued at second t for an address is accepted
\* for that address at second now exactly when 0 <= now - t <= 10.
C8_ValidityWindow ==
    (tk.pc = "done" /\ tk.vaddr = tk.addr /\ Len(tk.odcid) > 0)
        => ((Len(tk.out) > 0) <=> WithinValidity(tk.issuedAt, tk.now))

\* The connections whose inbound queue holds buffer b.
QueuedOn(b) ==
    {c \in DOMAIN conns : \E i \in DOMAIN conns[c].recvCh : conns[c].recvCh[i] = b}

\* The stages that hold buffer b: a dispatch loop between lookup and
\* routing, an admission routine, or the inbound queue of a registered
\* connection whose driver has not ended.
Holders(b) ==
    {l \in Loops : loops[l].b = b}
    \cup {a \in DOMAIN adm : a = b /\ adm[a].pc \in {"start", "enqueue"}}
    \cup {c \in QueuedOn(b) :
            conns[c].st = "inserted" /\ conns[c].drv # "closed"}

\* ---- C9 (checked under Spec)
\* Every packet buffer a receive loop acquired is released exactly once on
\* every exit path: it is never released twice, a released buffer is held by
\* no stage, and an unreleased one is held by a stage that will release it
\* (a loop, an admission routine, or the queue of a live connection).
C9_ReleasedExactlyOnce ==
    \A b \in DOMAIN pkt :
        /\ released[b] <= 1
        /\ released[b] = 1 => Holders(b) = {} /\ QueuedOn(b) = {}
        /\ released[b] = 0 => Holders(b) # {}

\* ---- C10 (checked under Spec)
\* No datagram is routed to a removed connection: no step places a buffer on
\* the inbound queue of a connection whose registry entry was removed.
C10_NeverRoutedToRemoved ==
    [][ \A c \in DOMAIN conns :
            conns[c].st = "removed" =>
                Len(conns'[c].recvCh) <= Len(conns[c].recvCh)
      ]_vars

\* ------------------------------------------------------------ scheduling
\* The identifiers a connection handle can have: the buffer that triggered
\* its admission, or the Connect call that created it.
Handles == 1..(IF MaxReads > MaxConnects THEN MaxReads ELSE MaxConnects)

\* The Go scheduler runs every goroutine that can take its next step: the
\* Serve loop outside ReadFrom, handleNewConn, the driver's receive, Connect
\* after its insertion and Close after setting the flag. A blocked channel
\* send or socket read is not enabled. The network (ServeRead), the callers
\* (Listen, Connect, CloseFlag), the engine's end (DriverClose) and the
\* clock are under no obligation.
Fairness ==
    /\ \A l \in Loops :
          /\ WF_vars(ServeStart(l))
          /\ WF_vars(ServeReadClosed(l))
          /\ WF_vars(RecvRoute(l))
    /\ \A b \in 1..MaxReads :
          /\ WF_vars(AdmAdmit(b))
          /\ WF_vars(AdmEnqueue(b))
    /\ \A c \in Handles : WF_vars(c \in DOMAIN conns /\ DriverRecv(c))
    /\ \A k \in Calls :
          /\ WF_vars(ConnectSend(k))
          /\ WF_vars(ConnectRollback(k))
    /\ WF_vars(CloseSocket)

SpecLive == Init /\ [][Next]_vars /\ Fairness

\* ---- C11 (checked under SpecLive)
\* Server admission never deadlocks against a driver that has not started:
\* whatever the dispatch loop routes to the connection after its insertion,
\* the admission routine's hand-off of the triggering datagram completes and
\* the connection's driver is started.
C11_AdmissionCompletes ==
    \A b \in 1..MaxReads :
        (b \in DOMAIN adm /\ adm[b].pc = "enqueue")
            ~> (b \in DOMAIN conns /\ conns[b].drv # "none")

\* What Connect call k has returned, and in what state it left its
\* connection.
C12Returned ==
    \A k \in Calls :
        /\ calls[k].res = "send error" =>
              /\ conns[k].st = "removed"
              /\ conns[k].drv = "none"
              /\ conns[k].sent = 0
              /\ ~(conns[k].scid \in DOMAIN peers /\ peers[conns[k].scid] = k)
        /\ calls[k].res = "nil" =>
              /\ conns[k].sent = 1
              /\ conns[k].drv \in {"running", "closed"}

\* The step in which Connect call k returns after its send.
C12Step ==
    \A k \in Calls :
        /\ (calls[k].pc = "rollback" /\ calls'[k].pc = "done") =>
              /\ calls'[k].res = "send error"
              /\ conns[k].scid \in DOMAIN peers
              /\ DOMAIN peers' = DOMAIN peers \ {conns[k].scid}
              /\ \A x \in DOMAIN peers' : peers'[x] = peers[x]
        /\ (calls[k].pc = "send" /\ calls'[k].pc = "done") =>
              /\ calls'[k].res = "nil"
              /\ peers' = peers
              /\ peers[conns[k].scid] = k
              /\ conns[k].drv = "none"
              /\ conns'[k].drv = "running"
        /\ (k \in DOMAIN conns /\ conns'[k].drv = "running"
                /\ conns[k].drv # "running") =>
              (calls[k].pc = "send" /\ conns[k].drv = "none")

\* ---- C12 (checked under Spec)
\* Connect rollback: when the send of the initial datagram fails, Connect
\* returns the error, removes from the registry exactly the entry it
\* inserted and starts no driver; when the send succeeds it returns nil with
\* its entry present and its driver started, once.
C12_ConnectRollback ==
    /\ [](role = "client" => C12Returned)
    /\ [][role = "client" => C12Step]_vars

\* One Connect call failed to send and was rolled back, its key gone from the
\* registry; another succeeded and its connection is registered and driven.
C12_Witness ==
    /\ role = "client"
    /\ \E k1, k2 \in Calls :
          /\ calls[k1].res = "send error"
          /\ conns[k1].st = "removed"
          /\ conns[k1].drv = "none"
          /\ calls[k2].res = "nil"
          /\ conns[k2].drv = "running"
          /\ DOMAIN peers = {conns[k2].scid}
          /\ peers[conns[k2].scid] = k2
          /\ conns[k1].scid # conns[k2].scid

\* ---- C13 (checked under SpecLive)
\* Shutdown: Close sets the closing flag before it closes the socket, and
\* once Close has returned every Serve loop of the endpoint eventually
\* returns with an error, whether Close was called while Serve was in a
\* receive or before the socket was assigned and Serve started.
C13_ServeReturnsAfterClose ==
    /\ [](socket = "closed" => closing)
    /\ [](closer = "done" => closing)
    /\ \A l \in Loops :
          (closer = "done")
              ~> (loops[l].pc = "returned" /\ loops[l].err # "nil")

\* Loop l has finished one pass of its for loop: ReadFrom returned, what it
\* read was handled, and the read error was considered.
PassDone(l) ==
    /\ loops[l].pc \in {"read", "route"}
    /\ loops'[l] # loops[l]
    /\ loops'[l].pc \in {"read", "returned"}

\* ---- C14 (checked under Spec)
\* Read-error policy of Serve, server and client: after a timeout error the
\* loop goes on to the next receive, after any other error it returns that
\* error, and a datagram read together with an error is dispatched before the
\* error is considered.
C14_ReadErrorPolicy ==
    [][ \A l \in Loops :
          /\ PassDone(l) =>
                /\ loops'[l].err \in {"nil", "timeout"} => loops'[l].pc = "read"
                /\ loops'[l].err = "fatal" => loops'[l].pc = "returned"
          /\ \A b \in DOMAIN pkt' \ DOMAIN pkt :
                (loops[l].pc = "read" /\ ~closing /\ pkt'[b].n > 0) =>
                    /\ loops'[l].pc = "route"
                    /\ loops'[l].b = b
      ]_vars

\* A Retry datagram r answers packet h at time tnow: it goes to h's sender,
\* carries a CID from s.rand of the maximum length and a token that
\* validates for h's sender address, and for no other, to h's DCID.
RetryFor(r, h, tnow) ==
    /\ r.kind = "retry"
    /\ r.to = h.addr
    /\ r.dcid = h.SCID
    /\ r.scid \in RandCIDs
    /\ Len(r.scid) = MaxCIDLength
    /\ Validate(h.addr, r.token, tnow) = h.DCID
    /\ \A a \in Addrs :
          AddrString(a) # AddrString(h.addr) =>
              Validate(a, r.token, tnow) = <<>>

\* ---- C15 (checked under Spec)
\* Stateless Retry: with address validation enabled, the admission of a
\* qualifying Initial without token writes at most one Retry, to the sender,
\* with a CID from the random source and a token bound to the sender address
\* and the packet's DCID, releases the packet and changes nothing else: no
\* registry entry, no connection handle, no driver.
C15_StatelessRetry ==
    [][ \A b \in DOMAIN adm :
          (/\ addrValid
           /\ adm[b].pc = "start"
           /\ adm'[b].pc # "start"
           /\ TokenLen(pkt[b].Token) = 0) =>
              /\ adm'[b] = [pc |-> "done", res |-> "retry"]
              /\ Len(replies'[b]) <= 1
              /\ \A i \in DOMAIN replies'[b] :
                    RetryFor(replies'[b][i], pkt[b], now)
              /\ \A x \in DOMAIN replies : x # b => replies'[x] = replies[x]
              /\ released'[b] = 1
              /\ \A x \in DOMAIN released : x # b => released'[x] = released[x]
              /\ \A x \in DOMAIN adm : x # b => adm'[x] = adm[x]
              /\ UNCHANGED <<peers, conns, closing, socket, loops, calls,
                             closer, now, addrValid>>
      ]_vars

\* A tokenless Initial was answered with one Retry and nothing was created.
C15_Witness ==
    /\ addrValid
    /\ \E b \in DOMAIN adm :
          /\ adm[b].res = "retry"
          /\ Len(replies[b]) = 1
          /\ replies[b][1].kind = "retry"
          /\ replies[b][1].to = InitialFull.addr
          /\ Validate(InitialFull.addr, replies[b][1].token, now)
                = InitialFull.DCID
          /\ released[b] = 1
          /\ peers = <<>>
          /\ conns = <<>>

\* ------------------------------------------------------ the registry lock
\* The code of each routine that takes peersMu, as a control-flow graph: an
\* edge runs the operation at source line from and goes on to line to (0:
\* the routine has returned). The operations: "read" and "write" are socket
\* I/O, "crypto" token generation or validation, "rand" the random source,
\* "create" engine creation (newConn), "send" a send on a recvCh, "closing"
\* a read of the closing flag, "map" a read or write of s.peers.
E(from, op, to) == [from |-> from, op |-> op, to |-> to]

\* Server.Serve and Server.recv
ServerRecvCode ==
    { E(62, "read", 85), E(62, "read", 70), E(62, "read", 0),
      E(70, "free", 62),
      E(85, "decode", 88), E(85, "decode", 92),
      E(88, "free", 62),
      E(92, "RLock", 93),
      E(93, "closing", 95), E(93, "closing", 99),
      E(95, "RUnlock", 96),
      E(96, "free", 62),
      E(99, "map", 100),
      E(100, "RUnlock", 101),
      E(101, "test", 102), E(101, "test", 107), E(101, "test", 112),
      E(101, "test", 116),
      E(102, "send", 62),
      E(107, "free", 62),
      E(112, "write", 113),
      E(113, "free", 62),
      E(116, "go", 62) }

\* Client.Serve and Client.recv
ClientRecvCode ==
    { E(45, "read", 61), E(45, "read", 52), E(45, "read", 0),
      E(52, "free", 45),
      E(61, "decode", 64), E(61, "decode", 68),
      E(64, "free", 45),
      E(68, "RLock", 69),
      E(69, "closing", 71), E(69, "closing", 74),
      E(71, "RUnlock", 45),
      E(74, "map", 75),
      E(75, "RUnlock", 76),
      E(76, "test", 77), E(76, "test", 80),
      E(77, "send", 45),
      E(80, "free", 45) }

\* handleNewConn with the send to recvCh inside the locked section.
HandleNewConnCodeSendLocked ==
    { E(172, "test", 186),
      E(186, "create", 192),
      E(192, "Lock", 193),
      E(193, "closing", 199),
      E(199, "map", 206),
      E(206, "map", 209),
      E(209, "send", 207),
      E(207, "Unlock", 210),
      E(210, "handleConn", 0) }

\* Server.handleNewConn, with Server.retry (142-153) and Server.verifyToken
HandleNewConnCode ==
    { E(172, "test", 175), E(172, "test", 179), E(172, "test", 186),
      E(175, "rand", 147), E(175, "rand", 176),
      E(147, "crypto", 153),
      E(153, "write", 176),
      E(176, "free", 0),
      E(179, "crypto", 182), E(179, "crypto", 186),
      E(182, "free", 0),
      E(186, "create", 189), E(186, "create", 192),
      E(189, "free", 0),
      E(192, "Lock", 193),
      E(193, "closing", 195), E(193, "closing", 199),
      E(195, "Unlock", 196),
      E(196, "free", 0),
      E(199, "map", 201), E(199, "map", 206),
      E(201, "Unlock", 203),
      E(203, "free", 0),
      E(206, "map", 207),
      E(207, "Unlock", 209),
      E(209, "send", 210),
      E(210, "handleConn", 0) }

\* Client.Connect
ConnectCode ==
    { E(86, "create", 0), E(86, "create", 90),
      E(90, "Lock", 91),
      E(91, "closing", 92), E(91, "closing", 95),
      E(92, "Unlock", 0),
      E(95, "map", 96), E(95, "map", 99),
      E(96, "Unlock", 0),
      E(99, "map", 100),
      E(100, "Unlock", 104),
      E(104, "write", 105), E(104, "write", 110),
      E(105, "Lock", 106),
      E(106, "map", 107),
      E(107, "Unlock", 0),
      E(110, "go", 0) }

\* The routines under observation: the Serve loop and two admissions
\* (server) or two Connect calls (client).
Routines == {"serve", "a1", "a2"}

Code(r) ==
    IF r = "serve"
    THEN (IF role = "server" THEN ServerRecvCode ELSE ClientRecvCode)
    ELSE (IF role = "server" THEN HandleNewConnCode ELSE ConnectCode)

\* The line a routine starts at.
Entry(rl, r) ==
    IF r = "serve" THEN (IF rl = "server" THEN 62 ELSE 45)
    ELSE (IF rl = "server" THEN 172 ELSE 86)

InitLock ==
    /\ role \in {"server", "client"}
    /\ addrValid = (role = "server")
    /\ net = [wire |-> {}, reads |-> 0, dcids |-> {}]
    /\ InitEndpoint
    /\ tk = TkIdle
    /\ mu = [writer |-> "none", readers |-> {},
             rt |-> [r \in Routines |-> [pc |-> Entry(role, r), op |-> "none"]]]

\* sync.RWMutex: Lock waits for the writer and all readers to leave, RLock
\* for the writer.
CanRun(r, op) ==
    IF op = "Lock" THEN mu.writer = "none" /\ mu.readers = {}
    ELSE IF op = "RLock" THEN mu.writer = "none"
    ELSE TRUE

\* Routine r runs the operation at its line.
LockStep(r) ==
    /\ \E e \in Code(r) :
          /\ e.from = mu.rt[r].pc
          /\ CanRun(r, e.op)
          /\ mu' = [writer |-> IF e.op = "Lock" THEN r
                               ELSE IF e.op = "Unlock" THEN "none"
                               ELSE mu.writer,
                    readers |-> IF e.op = "RLock" THEN mu.readers \cup {r}
                                ELSE IF e.op = "RUnlock" THEN mu.readers \ {r}
                                ELSE mu.readers,
                    rt |-> [mu.rt EXCEPT ![r] = [pc |-> e.to, op |-> e.op]]]
    /\ UNCHANGED <<role, addrValid, socket, closing, peers, now, net, pkt,
                   released, replies, loops, adm, conns, calls, closer, tk>>

NextLock == \E r \in Routines : LockStep(r)

SpecLock == InitLock /\ [][NextLock]_vars

\* Routine r holds peersMu, shared or exclusive.
Holds(r) == mu.writer = r \/ r \in mu.readers

\* ---- C16 (checked under SpecLock)
\* peersMu is never held, shared or exclusive, by a routine of server.go or
\* client.go while it does socket I/O, generates or validates a token,
\* creates an engine or sends to a connection's inbound queue: a routine
\* that holds the lock has just taken it, read the closing flag or read or
\* written the map, and no routine returns with the lock held.
C16_LockScope ==
    \A r \in Routines :
        Holds(r) =>
            /\ mu.rt[r].op \in {"Lock", "RLock", "closing", "map"}
            /\ mu.rt[r].pc # 0

\* One routine holds the lock exclusively and has just written the map while
\* another one is past its engine creation or socket write without the lock.
C16_Witness ==
    \E r1, r2 \in Routines :
        /\ mu.writer = r1
        /\ mu.rt[r1].op = "map"
        /\ ~Holds(r2)
        /\ mu.rt[r2].op \in {"create", "write", "crypto", "read", "send"}

\* Every registry key has the maximum CID length.
KeysOfFixedLength == \A x \in DOMAIN peers : Len(x) = MaxCIDLength

\* The admission step that creates the connection handle of buffer b.
Creates(b) ==
    /\ role = "server"
    /\ b \in DOMAIN adm
    /\ b \notin DOMAIN conns
    /\ b \in DOMAIN conns'

\* ---- C17, as stated (checked under Spec)
\* The new connection's local CID is the client's SCID from the triggering
\* packet when that has the maximum CID length, else a random CID of that
\* length; every registry key has that length.
C17_LocalCIDFromSCID ==
    /\ []KeysOfFixedLength
    /\ [][ \A b \in DOMAIN pkt :
             Creates(b) =>
                 IF Len(pkt[b].SCID) = MaxCIDLength
                 THEN conns'[b].scid = pkt[b].SCID
                 ELSE conns'[b].scid \in RandCIDs
         ]_vars

\* ---- C17, amended (checked under Spec)
\* The new connection's local CID is the DCID of the triggering packet when
\* that has the maximum CID length, else a random CID of that length; every
\* registry key has that length.
C17_LocalCIDFromDCID ==
    /\ []KeysOfFixedLength
    /\ [][ \A b \in DOMAIN pkt :
             Creates(b) =>
                 /\ Len(conns'[b].scid) = MaxCIDLength
                 /\ IF Len(pkt[b].DCID) = MaxCIDLength
                    THEN conns'[b].scid = pkt[b].DCID
                    ELSE conns'[b].scid \in RandCIDs
         ]_vars

\* Two connections are registered: one for an Initial with a full-length
\* DCID, under that DCID, and one for an Initial with an empty DCID, under a
\* random CID, although both packets carry a full-length SCID.
C17_Witness ==
    \E b1, b2 \in DOMAIN conns :
        /\ role = "server"
        /\ pkt[b1] = InitialFull
        /\ conns[b1].scid = InitialFull.DCID
        /\ peers[conns[b1].scid] = b1
        /\ pkt[b2] = InitialEmptyDCID
        /\ conns[b2].scid \in RandCIDs
        /\ conns[b2].scid # InitialEmptyDCID.SCID
        /\ peers[conns[b2].scid] = b2

\* No driver for a connection whose insertion was rejected or rolled back,
\* and a driver only for a connection that was inserted.
C18NoneForRejected ==
    \A c \in DOMAIN conns :
        /\ conns[c].st \in {"closing", "conflict"} => conns[c].drv = "none"
        /\ conns[c].drv # "none" => conns[c].st \in {"inserted", "removed"}
        /\ (role = "client" /\ calls[c].res = "send error") =>
              conns[c].drv = "none"

\* A driver is started only for a registered connection that never had one.
C18StartedOnce ==
    \A c \in DOMAIN conns :
        (conns'[c].drv = "running" /\ conns[c].drv # "running") =>
            /\ conns[c].drv = "none"
            /\ conns[c].st = "inserted"
            /\ peers[conns[c].scid] = c

\* ---- C18 (checked under SpecLive)
\* Exactly one driver per connection: every connection that is inserted into
\* the registry and not rolled back gets its driver started, once; none is
\* started for a connection that was rejected (closing, CID collision) or
\* rolled back, and never a second one for the same connection.
C18_ExactlyOneDriver ==
    /\ []C18NoneForRejected
    /\ [][C18StartedOnce]_vars
    /\ \A c \in Handles :
          (c \in DOMAIN conns /\ conns[c].st = "inserted")
              ~> (/\ c \in DOMAIN conns
                  /\ (conns[c].drv # "none" \/ conns[c].st = "removed"))

\* Validate succeeds for the token: it is long enough, inside the window at
\* tnow, and opens under the validator's key for the address.
TokenAccepted(addr, token, tnow) ==
    /\ TokenLen(token) >= TimestampLen
    /\ InWindow(GetUint32(token.ts), tnow)
    /\ Open(ValidatorKey, token.ts \o NonceTail, token.box,
            AddrString(addr)).ok

\* ---- C19 (checked under Spec)
\* With address validation enabled, an Initial with a token is dropped as
\* "invalid retry token" only if Validate rejects the token; whenever
\* Validate succeeds for the sender and the token, for every original DCID
\* including an empty one, admission goes on to create the connection, with
\* the recovered original DCID.
C19_ValidTokenAdmitted ==
    [][ \A b \in DOMAIN adm :
          (/\ addrValid
           /\ adm[b].pc = "start"
           /\ adm'[b].pc # "start"
           /\ TokenLen(pkt[b].Token) # 0) =>
              /\ adm'[b].res = "invalid" =>
                    ~TokenAccepted(pkt[b].addr, pkt[b].Token, now)
              /\ TokenAccepted(pkt[b].addr, pkt[b].Token, now) =>
                    /\ adm'[b].res \in
                          {"insert", "conflict", "closing", "failed"}
                    /\ b \in DOMAIN conns' =>
                          conns'[b].odcid = pkt[b].Token.box.pt
      ]_vars

\* ------------------------------------------------- a token presented again
\* The retry exchange with a client that presents the token of a Retry in
\* Initial packets of its own making: besides the Retry's CID it may use
\* another full-length DCID.
ReplayDCID == Cid(MaxCIDLength, 3)

InitReplay ==
    /\ role = "server"
    /\ addrValid = TRUE
    /\ net = [wire |-> RetryDatagrams, reads |-> MaxRetryReads,
              dcids |-> {ReplayDCID}]
    /\ InitEndpoint
    /\ tk = TkIdle
    /\ mu = MuIdle

SpecReplay == InitReplay /\ [][NextRetry]_vars

\* ---- C20 (checked under SpecReplay)
\* One issued token admits at most one connection: the registry never holds
\* two entries whose Initial packets, with DCIDs that differ from each
\* other, came from the same sender address and carried the same token.
C20_TokenAdmitsOnce ==
    \A k1, k2 \in DOMAIN peers :
        (/\ k1 # k2
         /\ pkt[peers[k1]].DCID # pkt[peers[k2]].DCID
         /\ pkt[peers[k1]].addr = pkt[peers[k2]].addr
         /\ TokenLen(pkt[peers[k1]].Token) # 0) =>
            pkt[peers[k1]].Token # pkt[peers[k2]].Token

====
